---- MODULE Spec2Model ----
(***************************************************************************)
(* distributed_nose/plugin.py: the DistributedNose plugin.  Every node of  *)
(* a fleet runs one plugin object; configure() validates the options and   *)
(* builds the least-processing-time table and the hash ring, and then the  *)
(* host asks wantClass / wantMethod / wantFunction about each test item.   *)
(***************************************************************************)
EXTENDS Integers, Sequences, FiniteSets, TLC

\* Bounds of the model.
MaxNodes == 2
MaxDur == 2

VARIABLES
    options,          \* per plugin object: the parsed command line handed to configure()
    lpt_file,         \* what is at the --lpt-data path: [status, data]
    ring_hash,        \* the hash_ring library's deterministic key hash
    plugin,           \* per plugin object: the attributes of `self`
    pc,               \* per plugin object: where configure() is
    sorted_lpt_data,  \* per plugin object: what the loop of line 159 has still to take
    raised,           \* per plugin object: the exception configure() propagated
    ret               \* per plugin object: the last callback's item and return value

vars == <<options, lpt_file, ring_hash, plugin, pc, sorted_lpt_data, raised, ret>>

----------------------------------------------------------------------------
\* Python values.  None is the empty tuple and a set attribute a 1-tuple, so
\* that a value and None always compare.
None == <<>>
Some(x) == <<x>>
IsNone(v) == v = <<>>
Get(v) == v[1]

\* An option value as optparse delivers it: text, kept as its characters.
\* After int() the attribute holds a number.
PyStr(chars) == [isint |-> FALSE, chars |-> chars, int |-> 0]
PyInt(n) == [isint |-> TRUE, chars |-> <<>>, int |-> n]

\* The three outcomes of a callback: Python's True, False and None.
Include == "include"
Exclude == "exclude"
Defer == "defer"

Range(s) == {s[i] : i \in DOMAIN s}

Perms(S) == {s \in [1..Cardinality(S) -> S] : Range(s) = S}

----------------------------------------------------------------------------
\* int(text): an optional sign and one or more decimal digits; anything else
\* raises ValueError.
Digits == <<"0", "1", "2", "3", "4", "5", "6", "7", "8", "9">>

IsDigit(c) == \E i \in DOMAIN Digits : Digits[i] = c

DigitVal(c) == (CHOOSE i \in DOMAIN Digits : Digits[i] = c) - 1

RECURSIVE DigitsValue(_)
DigitsValue(chars) ==
    IF chars = <<>> THEN 0
    ELSE DigitsValue(SubSeq(chars, 1, Len(chars) - 1)) * Len(Digits)
         + DigitVal(chars[Len(chars)])

Signed(chars) == chars # <<>> /\ chars[1] \in {"-", "+"}

Magnitude(chars) == IF Signed(chars) THEN Tail(chars) ELSE chars

IntParses(chars) ==
    /\ Magnitude(chars) # <<>>
    /\ \A i \in DOMAIN Magnitude(chars) : IsDigit(Magnitude(chars)[i])

IntOf(chars) ==
    IF Signed(chars) /\ chars[1] = "-"
    THEN 0 - DigitsValue(Magnitude(chars))
    ELSE DigitsValue(Magnitude(chars))

\* The text a number is typed as on the command line.
RECURSIVE Typed(_)
Typed(n) ==
    IF n < 0 THEN <<"-">> \o Typed(0 - n)
    ELSE IF n < Len(Digits) THEN <<Digits[n + 1]>>
    ELSE Typed(n \div Len(Digits)) \o <<Digits[(n % Len(Digits)) + 1]>>

----------------------------------------------------------------------------
\* DistributedNose.ALGORITHM_* and DistributedNose.algorithms.
ALGORITHM_HASH_RING == 0
ALGORITHM_LEAST_PROCESSING_TIME == 1

algorithms ==
    [name \in {"hash-ring", "least-processing-time"} |->
        IF name = "hash-ring" THEN ALGORITHM_HASH_RING
        ELSE ALGORITHM_LEAST_PROCESSING_TIME]

----------------------------------------------------------------------------
\* The test items the host discovers: a bare function m.f, a class m.K, its
\* own method t, and a method u that K inherits from a base class written in
\* module b (u.__module__ is "b", u.im_class is K).
Functions == {"f"}
Classes == {"K"}
Methods == {"t", "u"}
Items == Functions \cup Classes \cup Methods

\* __module__ of the object: for a method that of the function behind it.
ModuleOf(item) == IF item = "u" THEN "b" ELSE "m"

\* im_class of a method.
ImClass(method) == "K"

\* str(cls) of a new-style class.
StrOfClass(cls) == "<class '" \o ModuleOf(cls) \o "." \o cls \o "'>"

\* nose.util.test_address(obj), its module and call: a function or a class
\* gives (__module__, __name__); a method gives its class's address with
\* ".<name>" appended to the call; anything else raises TypeError.
AddressModule(obj) ==
    IF obj \in Methods THEN ModuleOf(ImClass(obj)) ELSE ModuleOf(obj)

AddressCall(obj) ==
    IF obj \in Methods THEN ImClass(obj) \o "." \o obj ELSE obj

HasAddress(obj) == obj \in Functions \cup Classes \cup Methods

\* The key validateName hashes: '%s.%s' % (module, call).
NameKey(obj) ==
    IF HasAddress(obj) THEN AddressModule(obj) \o "." \o AddressCall(obj)
    ELSE "unknown" \o "." \o obj

\* full_name of wantMethod and namespaced_class of wantClass.
FullName(method) == ModuleOf(method) \o "." \o ImClass(method) \o "." \o method

NamespacedClass(cls) == ModuleOf(cls) \o "." \o cls

\* Every key the callbacks can hand to the ring.
RingKeys ==
    {NameKey(obj) : obj \in Functions \cup Methods}
        \cup {FullName(method) : method \in Methods}
        \cup {StrOfClass(cls) : cls \in Classes}

\* HashRing(range(1, node_count + 1)) and HashRing.get_node(key): the ring
\* of the nodes 1..node_count sends a key to one of them, the same one on
\* every call and in every process.
HashRing(node_count) == [nodes |-> 1..node_count]

get_node(ring, key) == ((ring_hash[key] - 1) % Cardinality(ring.nodes)) + 1

----------------------------------------------------------------------------
\* DistributedNose.__init__ (Plugin.enabled is False until configure sets it;
\* hash_by_class, algorithm and lpt_data_filepath do not exist yet).
NewPlugin ==
    [node_count |-> None, node_id |-> None, hash_ring |-> None,
     lpt_nodes |-> None, lpt_data |-> None, hash_by_class |-> None,
     algorithm |-> None, lpt_data_filepath |-> None, enabled |-> FALSE]

\* The check without its lower bound on the node number.
OptionsValidUnbounded(self) ==
    LET count == Get(self.node_count).chars
        number == Get(self.node_id).chars
    IN  IF ~IntParses(count) THEN [valid |-> FALSE, self |-> self]
        ELSE LET s1 == [self EXCEPT !.node_count = Some(PyInt(IntOf(count)))]
             IN  IF ~IntParses(number) THEN [valid |-> FALSE, self |-> s1]
                 ELSE LET s2 == [s1 EXCEPT !.node_id = Some(PyInt(IntOf(number)))]
                      IN  IF IntOf(number) > IntOf(count)
                          THEN [valid |-> FALSE, self |-> s2]
                          ELSE [valid |-> TRUE, self |-> s2]

\* DistributedNose._options_are_valid: the verdict and self as it leaves it.
_options_are_valid(self) ==
    LET count == Get(self.node_count).chars
        number == Get(self.node_id).chars
    IN  IF ~IntParses(count) THEN [valid |-> FALSE, self |-> self]
        ELSE LET s1 == [self EXCEPT !.node_count = Some(PyInt(IntOf(count)))]
             IN  IF ~IntParses(number) THEN [valid |-> FALSE, self |-> s1]
                 ELSE LET s2 == [s1 EXCEPT !.node_id = Some(PyInt(IntOf(number)))]
                      IN  IF IntOf(number) > IntOf(count)
                          THEN [valid |-> FALSE, self |-> s2]
                          ELSE IF IntOf(number) < 1
                          THEN [valid |-> FALSE, self |-> s2]
                          ELSE [valid |-> TRUE, self |-> s2]

NodeCount(self) == Get(self.node_count).int

NodeId(self) == Get(self.node_id).int

----------------------------------------------------------------------------
\* The least-processing-time build of configure, lines 145-165.

\* Line 145: node_count + 1 empty nodes, the 0th a dummy.
EmptyNodes(node_count) ==
    [i \in 0..node_count |-> [processing_time |-> 0, objects |-> {}]]

\* lpt_data.items() in the order the dict iterates its keys.
ItemsOf(data, order) ==
    [i \in DOMAIN order |-> [obj |-> order[i], data |-> data[order[i]]]]

\* t[1]['duration'] raises KeyError for an entry without the field.
HasDuration(entry) == entry # None

Duration(entry) == Get(entry)

\* sorted(items, key=duration, reverse=True): a stable sort, so entries of
\* equal duration stay in the order the dict gave them.
RECURSIVE SortedByDuration(_)
SortedByDuration(items) ==
    IF items = <<>> THEN <<>>
    ELSE LET last == items[Len(items)]
             front == SortedByDuration(SubSeq(items, 1, Len(items) - 1))
             ahead == {i \in DOMAIN front :
                          Duration(front[i].data) >= Duration(last.data)}
             k == Cardinality(ahead)
         IN  SubSeq(front, 1, k) \o <<last>> \o SubSeq(front, k + 1, Len(front))

\* min(self.lpt_nodes, ...): the dummy node not sliced off.
MinNodeWithDummy(lpt_nodes) ==
    CHOOSE b \in DOMAIN lpt_nodes :
        \A c \in DOMAIN lpt_nodes :
            \/ lpt_nodes[b].processing_time < lpt_nodes[c].processing_time
            \/ /\ lpt_nodes[b].processing_time = lpt_nodes[c].processing_time
               /\ b <= c

\* The last, not the first, of the least loaded nodes.
MinNodeLast(lpt_nodes) ==
    CHOOSE b \in DOMAIN lpt_nodes \ {0} :
        \A c \in DOMAIN lpt_nodes \ {0} :
            \/ lpt_nodes[b].processing_time < lpt_nodes[c].processing_time
            \/ /\ lpt_nodes[b].processing_time = lpt_nodes[c].processing_time
               /\ b >= c

\* min(self.lpt_nodes[1:], key=processing_time): the first of the least
\* loaded nodes, the dummy left out.
MinNode(lpt_nodes) ==
    CHOOSE b \in DOMAIN lpt_nodes \ {0} :
        \A c \in DOMAIN lpt_nodes \ {0} :
            \/ lpt_nodes[b].processing_time < lpt_nodes[c].processing_time
            \/ /\ lpt_nodes[b].processing_time = lpt_nodes[c].processing_time
               /\ b <= c

\* Lines 160-165: one turn of the loop.
Assign(lpt_nodes, item) ==
    LET b == MinNode(lpt_nodes)
    IN  [lpt_nodes EXCEPT
            ![b] = [processing_time |->
                        lpt_nodes[b].processing_time + Duration(item.data),
                    objects |-> lpt_nodes[b].objects \cup {item.obj}]]

----------------------------------------------------------------------------
\* The callbacks.  Each is a method of the plugin object: it gives back the
\* object as it leaves it and the value it returns.
Return(self, result) == [self |-> self, result |-> result]

PyBool(b) == IF b THEN Include ELSE Exclude

\* validateName answering True, not None, for a name of this node.
validateNameTrue(self, testObject) ==
    LET node == get_node(Get(self.hash_ring), NameKey(testObject))
    IN  IF node # NodeId(self) THEN Return(self, Exclude)
        ELSE Return(self, Include)

\* DistributedNose.validateName
validateName(self, testObject) ==
    LET node == get_node(Get(self.hash_ring), NameKey(testObject))
    IN  IF node # NodeId(self) THEN Return(self, Exclude)
        ELSE Return(self, Defer)

\* DistributedNose.wantClass
wantClass(self, cls) ==
    IF ~Get(self.hash_by_class) THEN Return(self, Defer)
    ELSE IF Get(self.algorithm) = ALGORITHM_HASH_RING
    THEN IF get_node(Get(self.hash_ring), StrOfClass(cls)) # NodeId(self)
         THEN Return(self, Exclude)
         ELSE Return(self, Defer)
    ELSE IF Get(self.algorithm) = ALGORITHM_LEAST_PROCESSING_TIME
            /\ Get(self.hash_by_class)
    THEN IF NamespacedClass(cls) \in DOMAIN Get(self.lpt_data)
         THEN Return(self, PyBool(NamespacedClass(cls) \in
                        Get(self.lpt_nodes)[NodeId(self)].objects))
         ELSE IF get_node(Get(self.hash_ring), StrOfClass(cls)) # NodeId(self)
         THEN Return(self, Exclude)
         ELSE Return(self, Defer)
    ELSE Return(self, Defer)

\* wantMethod without its first test of hash_by_class.
wantMethodUnguarded(self, method) ==
    IF Get(self.algorithm) = ALGORITHM_LEAST_PROCESSING_TIME
       /\ ~Get(self.hash_by_class)
    THEN IF FullName(method) \in DOMAIN Get(self.lpt_data)
         THEN Return(self, PyBool(FullName(method) \in
                        Get(self.lpt_nodes)[NodeId(self)].objects))
         ELSE IF get_node(Get(self.hash_ring), FullName(method)) # NodeId(self)
         THEN Return(self, Exclude)
         ELSE validateName(self, method)
    ELSE validateName(self, method)

\* wantMethod placing a method it has no duration for in the table as it
\* meets it, on the least loaded node.
wantMethodDynamic(self, method) ==
    IF Get(self.hash_by_class) THEN Return(self, Defer)
    ELSE IF Get(self.algorithm) = ALGORITHM_LEAST_PROCESSING_TIME
            /\ ~Get(self.hash_by_class)
    THEN IF FullName(method) \in DOMAIN Get(self.lpt_data)
         THEN Return(self, PyBool(FullName(method) \in
                        Get(self.lpt_nodes)[NodeId(self)].objects))
         ELSE LET entry == [obj |-> FullName(method), data |-> Some(0)]
                  data == [k \in DOMAIN Get(self.lpt_data) \cup {entry.obj} |->
                              IF k = entry.obj THEN entry.data
                              ELSE Get(self.lpt_data)[k]]
              IN  Return([self EXCEPT
                             !.lpt_data = Some(data),
                             !.lpt_nodes = Some(Assign(Get(self.lpt_nodes), entry))],
                         PyBool(MinNode(Get(self.lpt_nodes)) = NodeId(self)))
    ELSE validateName(self, method)

\* DistributedNose.wantMethod
wantMethod(self, method) ==
    IF Get(self.hash_by_class) THEN Return(self, Defer)
    ELSE IF Get(self.algorithm) = ALGORITHM_LEAST_PROCESSING_TIME
            /\ ~Get(self.hash_by_class)
    THEN IF FullName(method) \in DOMAIN Get(self.lpt_data)
         THEN Return(self, PyBool(FullName(method) \in
                        Get(self.lpt_nodes)[NodeId(self)].objects))
         ELSE IF get_node(Get(self.hash_ring), FullName(method)) # NodeId(self)
         THEN Return(self, Exclude)
         ELSE validateName(self, method)
    ELSE validateName(self, method)

\* DistributedNose.wantFunction
wantFunction(self, function) == validateName(self, function)

----------------------------------------------------------------------------
\* configure(), lines 113-157: the attributes are set, the options checked,
\* the disable switch honoured, and under least-processing-time the file is
\* loaded and sorted.  It ends by returning, by raising, or at the loop.
ConfigureOutcome(self, pcv, todo, exc) ==
    [self |-> self, pc |-> pcv, todo |-> todo, raised |-> exc]

LoadAndSort(self, order) ==
    IF Get(self.lpt_data_filepath) = ""
    THEN ConfigureOutcome(self, "raised", <<>>, "AssertionError")
    ELSE IF lpt_file.status = "missing"
    THEN ConfigureOutcome(self, "raised", <<>>, "IOError")
    ELSE IF lpt_file.status = "malformed"
    THEN ConfigureOutcome(self, "raised", <<>>, "ValueError")
    ELSE LET loaded == [self EXCEPT
                           !.lpt_data = Some(lpt_file.data),
                           !.lpt_nodes = Some(EmptyNodes(NodeCount(self)))]
         IN  IF \E k \in DOMAIN lpt_file.data : ~HasDuration(lpt_file.data[k])
             THEN ConfigureOutcome(loaded, "raised", <<>>, "KeyError")
             ELSE ConfigureOutcome(loaded, "lpt_loop",
                      SortedByDuration(ItemsOf(lpt_file.data, order)), "")

\* Line 184.
BuildRing(self) ==
    [self EXCEPT !.hash_ring = Some(HashRing(NodeCount(self)))]

configure(self, opts, order) ==
    LET set == [self EXCEPT
                   !.node_count = Some(PyStr(opts.distributed_nodes)),
                   !.node_id = Some(PyStr(opts.distributed_node_number)),
                   !.hash_by_class = Some(opts.distributed_hash_by_class),
                   !.algorithm = Some(algorithms[opts.algorithm]),
                   !.lpt_data_filepath = Some(opts.lpt_data_filepath)]
        checked == _options_are_valid(set)
    IN  IF ~checked.valid
        THEN ConfigureOutcome([checked.self EXCEPT !.enabled = FALSE],
                              "returned", <<>>, "")
        ELSE IF opts.distributed_disabled
        THEN ConfigureOutcome([checked.self EXCEPT !.enabled = FALSE],
                              "returned", <<>>, "")
        ELSE LET on == IF NodeCount(checked.self) > 1
                       THEN [checked.self EXCEPT !.enabled = TRUE]
                       ELSE checked.self
             IN  IF Get(on.algorithm) = ALGORITHM_LEAST_PROCESSING_TIME
                 THEN LoadAndSort(on, order)
                 ELSE ConfigureOutcome(BuildRing(on), "returned", <<>>, "")

\* The orders in which the dict json.load built may iterate.
IterationOrders == Perms(DOMAIN lpt_file.data)

Configure(e) ==
    /\ pc[e] = "new"
    /\ \E order \in IterationOrders :
          LET out == configure(plugin[e], options[e], order)
          IN  /\ plugin' = [plugin EXCEPT ![e] = out.self]
              /\ pc' = [pc EXCEPT ![e] = out.pc]
              /\ sorted_lpt_data' = [sorted_lpt_data EXCEPT ![e] = out.todo]
              /\ raised' = [raised EXCEPT ![e] = out.raised]
    /\ UNCHANGED <<options, lpt_file, ring_hash, ret>>

\* Lines 159-165: the loop takes the next entry.
LptStep(e) ==
    /\ pc[e] = "lpt_loop"
    /\ sorted_lpt_data[e] # <<>>
    /\ plugin' = [plugin EXCEPT ![e].lpt_nodes =
                     Some(Assign(Get(plugin[e].lpt_nodes),
                                 Head(sorted_lpt_data[e])))]
    /\ sorted_lpt_data' = [sorted_lpt_data EXCEPT ![e] = Tail(@)]
    /\ UNCHANGED <<options, lpt_file, ring_hash, pc, raised, ret>>

\* The loop is over: line 184, and configure returns.
ConfigureReturn(e) ==
    /\ pc[e] = "lpt_loop"
    /\ sorted_lpt_data[e] = <<>>
    /\ plugin' = [plugin EXCEPT ![e] = BuildRing(@)]
    /\ pc' = [pc EXCEPT ![e] = "returned"]
    /\ UNCHANGED <<options, lpt_file, ring_hash, sorted_lpt_data, raised, ret>>

\* The host asks only the plugins that configure left enabled.
Asked(e) == pc[e] = "returned" /\ plugin[e].enabled

Answer(e, callback, item, out) ==
    /\ plugin' = [plugin EXCEPT ![e] = out.self]
    /\ ret' = [ret EXCEPT ![e] =
                  Some([callback |-> callback, item |-> item,
                        result |-> out.result])]
    /\ UNCHANGED <<options, lpt_file, ring_hash, pc, sorted_lpt_data, raised>>

WantClass(e) ==
    /\ Asked(e)
    /\ \E cls \in Classes :
          Answer(e, "wantClass", cls, wantClass(plugin[e], cls))

WantMethod(e) ==
    /\ Asked(e)
    /\ \E method \in Methods :
          Answer(e, "wantMethod", method, wantMethod(plugin[e], method))

WantFunction(e) ==
    /\ Asked(e)
    /\ \E function \in Functions :
          Answer(e, "wantFunction", function, wantFunction(plugin[e], function))

Next ==
    \/ \E e \in DOMAIN plugin : Configure(e)
    \/ \E e \in DOMAIN plugin : LptStep(e)
    \/ \E e \in DOMAIN plugin : ConfigureReturn(e)
    \/ \E e \in DOMAIN plugin : WantClass(e)
    \/ \E e \in DOMAIN plugin : WantMethod(e)
    \/ \E e \in DOMAIN plugin : WantFunction(e)

----------------------------------------------------------------------------
\* What the runs start from.

Options(nodes, number, disabled, by_class, algorithm, path) ==
    [distributed_nodes |-> nodes, distributed_node_number |-> number,
     distributed_disabled |-> disabled, distributed_hash_by_class |-> by_class,
     algorithm |-> algorithm, lpt_data_filepath |-> path]

\* Texts for --nodes and --node-number: numbers from -1 to one past the
\* largest fleet, and two texts that are no numbers.
Texts == {Typed(n) : n \in (0 - 1)..(MaxNodes + 1)} \cup {<<"x">>, <<>>}

AlgorithmNames == DOMAIN algorithms

Paths == {"", "lpt.json"}

\* Files: an entry is its duration, or None when the field is missing.
Missing == [status |-> "missing", data |-> <<>>]
Malformed == [status |-> "malformed", data |-> <<>>]
Loaded(data) == [status |-> "ok", data |-> data]

\* The keys a duration file may hold: the function, the class, the class's
\* own method, and a test that no longer exists.
ItemKeys == {NameKey("f"), NamespacedClass("K"), FullName("t")}
DataKeys == ItemKeys \cup {"m.old"}

DataOver(keys, entries) == UNION {[S -> entries] : S \in SUBSET keys}

Durations == {Some(d) : d \in 0..MaxDur}

\* A file with one entry that lacks its duration.
SchemaInvalid == Loaded([k \in {NameKey("f"), FullName("t")} |->
                            IF k = NameKey("f") THEN Some(MaxDur) ELSE None])

AllHashes == [RingKeys -> 1..MaxNodes]

\* One hash where the inherited method's two keys part, one where they agree.
FewHashes ==
    {[k \in RingKeys |-> IF k = FullName("u") THEN a ELSE b] :
        a, b \in 1..MaxNodes}

Start(fleet) ==
    /\ plugin = [e \in fleet |-> NewPlugin]
    /\ pc = [e \in fleet |-> "new"]
    /\ sorted_lpt_data = [e \in fleet |-> <<>>]
    /\ raised = [e \in fleet |-> ""]
    /\ ret = [e \in fleet |-> None]

\* One plugin, any command line, each kind of file.
InitValidation ==
    /\ Start({1})
    /\ \E nodes \in Texts, number \in Texts, disabled \in BOOLEAN,
          by_class \in BOOLEAN, algorithm \in AlgorithmNames, path \in Paths :
          options = [e \in {1} |->
              Options(nodes, number, disabled, by_class, algorithm, path)]
    /\ lpt_file \in {Missing, Malformed, SchemaInvalid,
                     Loaded([k \in ItemKeys |-> Some(MaxDur)])}
    /\ ring_hash = [k \in RingKeys |-> 1]

\* One plugin, a valid command line, any duration file.
InitBuild ==
    /\ Start({1})
    /\ \E n \in 1..MaxNodes, id \in 1..MaxNodes, by_class \in BOOLEAN :
          /\ id <= n
          /\ options = [e \in {1} |->
                Options(Typed(n), Typed(id), FALSE, by_class,
                        "least-processing-time", "lpt.json")]
    /\ \E data \in DataOver(DataKeys, Durations) : lpt_file = Loaded(data)
    /\ ring_hash = [k \in RingKeys |-> 1]

Init == InitValidation \/ InitBuild

Spec == Init /\ [][Next]_vars

\* One enabled plugin, any ring, the files that name some of the items.
InitQuery ==
    /\ Start({1})
    /\ \E n \in 2..MaxNodes, id \in 1..MaxNodes, by_class \in BOOLEAN,
          algorithm \in AlgorithmNames :
          /\ id <= n
          /\ options = [e \in {1} |->
                Options(Typed(n), Typed(id), FALSE, by_class, algorithm,
                        "lpt.json")]
    /\ \E data \in DataOver(ItemKeys, {Some(1)}) : lpt_file = Loaded(data)
    /\ ring_hash \in AllHashes

SpecQuery == InitQuery /\ [][Next]_vars

\* A fleet: node_count plugins told the same but for --node-number, each
\* loading its own copy of the same file.
InitFleet ==
    /\ \E n \in 2..MaxNodes, by_class \in BOOLEAN, algorithm \in AlgorithmNames :
          /\ Start(1..n)
          /\ options = [e \in 1..n |->
                Options(Typed(n), Typed(e), FALSE, by_class, algorithm,
                        "lpt.json")]
    /\ \E data \in DataOver(ItemKeys, {Some(1)}) : lpt_file = Loaded(data)
    /\ ring_hash \in FewHashes

SpecFleet == InitFleet /\ [][Next]_vars

----------------------------------------------------------------------------
\* What the claims speak of.

Plugins == DOMAIN plugin

\* configure has ended for e, by returning or by raising.
Ended(e) == pc[e] \in {"returned", "raised"}

\* e's table stands built: configure returned with lpt_nodes set.
TableBuilt(e) == pc[e] = "returned" /\ ~IsNone(plugin[e].lpt_nodes)

Buckets(e) == DOMAIN Get(plugin[e].lpt_nodes) \ {0}

ObjectsOf(e, b) == Get(plugin[e].lpt_nodes)[b].objects

RECURSIVE SumOfDurations(_, _)
SumOfDurations(data, keys) ==
    IF keys = {} THEN 0
    ELSE LET k == CHOOSE x \in keys : TRUE
         IN  Duration(data[k]) + SumOfDurations(data, keys \ {k})

\* C2: once configure has built the table, every key of the duration record
\* is in the item set of exactly one of the buckets 1..N, the item sets
\* together are the key set, and the dummy slot 0 holds nothing.
PartitionOfUnity ==
    \A e \in Plugins :
        TableBuilt(e) =>
            LET keys == DOMAIN Get(plugin[e].lpt_data)
            IN  /\ \A k \in keys :
                       Cardinality({b \in Buckets(e) : k \in ObjectsOf(e, b)}) = 1
                /\ UNION {ObjectsOf(e, b) : b \in Buckets(e)} = keys
                /\ ObjectsOf(e, 0) = {}

\* A table of two or more buckets built from three or more keys, none empty.
PartitionWitness ==
    \E e \in Plugins :
        /\ TableBuilt(e)
        /\ Cardinality(DOMAIN Get(plugin[e].lpt_data)) >= 3
        /\ Cardinality(Buckets(e)) >= 2
        /\ \A b \in Buckets(e) : ObjectsOf(e, b) # {}

\* C5: configure leaves enabled true only if --nodes and --node-number are
\* integers, 1 <= node number <= nodes, nodes > 1 and the disable switch is
\* off; the switch forces enabled false; and a text that is no integer, or a
\* node number below 1 or above nodes, makes configure return, not raise,
\* with enabled false.
OptionsInRange(o) ==
    /\ IntParses(o.distributed_nodes)
    /\ IntParses(o.distributed_node_number)
    /\ 1 <= IntOf(o.distributed_node_number)
    /\ IntOf(o.distributed_node_number) <= IntOf(o.distributed_nodes)

EnabledOnlyWhenValid ==
    \A e \in Plugins :
        pc[e] # "new" =>
            /\ plugin[e].enabled =>
                   /\ OptionsInRange(options[e])
                   /\ IntOf(options[e].distributed_nodes) > 1
                   /\ ~options[e].distributed_disabled
            /\ options[e].distributed_disabled => ~plugin[e].enabled
            /\ ~OptionsInRange(options[e]) =>
                   /\ pc[e] = "returned"
                   /\ raised[e] = ""
                   /\ ~plugin[e].enabled

\* configure was given node number 0 with two or more nodes, under
\* least-processing-time with no file to read, and has returned.
EnabledWitness ==
    \E e \in Plugins :
        /\ pc[e] = "returned"
        /\ options[e].distributed_node_number = Typed(0)
        /\ IntParses(options[e].distributed_nodes)
        /\ IntOf(options[e].distributed_nodes) > 1
        /\ ~options[e].distributed_disabled
        /\ options[e].algorithm = "least-processing-time"
        /\ lpt_file.status = "missing"
        /\ ~plugin[e].enabled

\* C9: the loop takes the entries in descending order of duration and gives
\* each to the bucket among 1..N whose total is least at that moment, the
\* lowest of them when several tie; that bucket's total grows by the entry's
\* duration and nothing else changes, so that every bucket's total is the sum
\* of the durations of its items.
TakesAnEntry(e) ==
    pc[e] = "lpt_loop" /\ sorted_lpt_data'[e] # sorted_lpt_data[e]

GreedyTurn(e) ==
    LET before == Get(plugin[e].lpt_nodes)
        after == Get(plugin'[e].lpt_nodes)
        todo == sorted_lpt_data[e]
        entry == Head(todo)
        d == Duration(entry.data)
    IN  /\ \A j \in DOMAIN todo : Duration(todo[j].data) <= d
        /\ \E b \in Buckets(e) :
              /\ \A c \in Buckets(e) :
                     before[b].processing_time <= before[c].processing_time
              /\ \A c \in Buckets(e) :
                     c < b => before[c].processing_time > before[b].processing_time
              /\ after[b].processing_time = before[b].processing_time + d
              /\ after[b].objects = before[b].objects \cup {entry.obj}
              /\ \A c \in DOMAIN before : c # b => after[c] = before[c]

TotalsAreSums(e) ==
    ~IsNone(plugin[e].lpt_nodes) =>
        \A b \in Buckets(e) :
            Get(plugin[e].lpt_nodes)[b].processing_time
                = SumOfDurations(Get(plugin[e].lpt_data), ObjectsOf(e, b))

GreedyLptStep ==
    [][\A e \in Plugins :
          /\ TakesAnEntry(e) => GreedyTurn(e)
          /\ TotalsAreSums(e)']_vars

\* The loop is under way with two buckets tied at a total above zero and an
\* entry still to place.
GreedyWitness ==
    \E e \in Plugins :
        /\ pc[e] = "lpt_loop"
        /\ sorted_lpt_data[e] # <<>>
        /\ \E b, c \in Buckets(e) :
              /\ b < c
              /\ Get(plugin[e].lpt_nodes)[b].processing_time > 0
              /\ Get(plugin[e].lpt_nodes)[b].processing_time
                     = Get(plugin[e].lpt_nodes)[c].processing_time

\* C6: when configure aborts on a duration-data error (IOError, ValueError,
\* KeyError) the plugin is not left enabled, and of the duration record, the
\* table and the ring none is set while another is not; after a configure
\* that returned or aborted so, the plugin is fully built or not enabled.
DataErrors == {"IOError", "ValueError", "KeyError"}

FullyBuilt(self) ==
    /\ ~IsNone(self.hash_ring)
    /\ Get(self.algorithm) = ALGORITHM_LEAST_PROCESSING_TIME =>
           ~IsNone(self.lpt_data) /\ ~IsNone(self.lpt_nodes)

NoPartiallyEnabledEngine ==
    \A e \in Plugins :
        /\ raised[e] \in DataErrors =>
               /\ ~plugin[e].enabled
               /\ IsNone(plugin[e].lpt_data) = IsNone(plugin[e].lpt_nodes)
               /\ IsNone(plugin[e].lpt_nodes) = IsNone(plugin[e].hash_ring)
        /\ pc[e] = "returned" \/ raised[e] \in DataErrors =>
               ~plugin[e].enabled \/ FullyBuilt(plugin[e])

----------------------------------------------------------------------------
\* The callbacks' answers.

HashByClass(e) == Get(plugin[e].hash_by_class)

UsesLpt(e) == Get(plugin[e].algorithm) = ALGORITHM_LEAST_PROCESSING_TIME

\* The last callback of e decided its item at the item's own granularity: a
\* bare function, a method when tests are spread one by one, a class when
\* they are spread by class.
Decided(e) ==
    /\ ~IsNone(ret[e])
    /\ \/ Get(ret[e]).callback = "wantFunction"
       \/ Get(ret[e]).callback = "wantMethod" /\ ~HashByClass(e)
       \/ Get(ret[e]).callback = "wantClass" /\ HashByClass(e)

\* The item's key: "<module>.<name>" for a function,
\* "<module>.<class>.<method>" for a method, and for a class its namespaced
\* name under least-processing-time and str(cls) under the hash ring.
ItemKey(e, item) ==
    IF item \in Functions THEN ModuleOf(item) \o "." \o item
    ELSE IF item \in Methods THEN FullName(item)
    ELSE IF UsesLpt(e) THEN NamespacedClass(item)
    ELSE StrOfClass(item)

KnownKey(e, item) ==
    UsesLpt(e) /\ ItemKey(e, item) \in DOMAIN Get(plugin[e].lpt_data)

InOwnBucket(e, item) == ItemKey(e, item) \in ObjectsOf(e, NodeId(plugin[e]))

\* The bucket that holds a known key.
BucketOf(e, item) ==
    CHOOSE b \in Buckets(e) : ItemKey(e, item) \in ObjectsOf(e, b)

\* The ring's node for the item: str(cls) is what a class is hashed by.
RingNode(e, item) ==
    get_node(Get(plugin[e].hash_ring),
             IF item \in Classes THEN StrOfClass(item) ELSE ItemKey(e, item))

\* The node the item's key resolves to: its bucket when the duration record
\* knows the key, the ring's node when it does not.
ResolvedNode(e, item) ==
    IF KnownKey(e, item) THEN BucketOf(e, item) ELSE RingNode(e, item)

\* C3: under least-processing-time, an item decided at its own granularity
\* whose key the duration record holds is answered by the key's membership
\* in this node's bucket: it is kept when the key is there and excluded when
\* it is not, and the ring has no say.
KnownKeysAnsweredFromTable ==
    \A e \in Plugins :
        Decided(e) /\ KnownKey(e, Get(ret[e]).item) =>
            (Get(ret[e]).result # Exclude) = InOwnBucket(e, Get(ret[e]).item)

\* C7 as first stated: a decision is include when the key resolves to this
\* node and exclude when it does not, and never defer.
DecideIsTwoValued ==
    \A e \in Plugins :
        Decided(e) =>
            Get(ret[e]).result =
                PyBool(ResolvedNode(e, Get(ret[e]).item) = NodeId(plugin[e]))

\* The keys a callback hands to the ring for an item, and whether it reads
\* the table instead.
ReadsTable(e, item) == item \notin Functions /\ KnownKey(e, item)

HashedKeys(e, item) ==
    IF item \in Classes THEN {StrOfClass(item)}
    ELSE IF item \in Methods /\ UsesLpt(e) THEN {FullName(item), NameKey(item)}
    ELSE {NameKey(item)}

\* C7 as amended: a decision is exclude when the node resolved for the item
\* is not this node; when it is this node the decision is include if it was
\* read from the table and defer (None) if it came from the ring.
DecideExcludesOthers ==
    \A e \in Plugins :
        Decided(e) =>
            LET item == Get(ret[e]).item
                own == NodeId(plugin[e])
                ring == Get(plugin[e].hash_ring)
            IN  IF ReadsTable(e, item)
                THEN Get(ret[e]).result = PyBool(InOwnBucket(e, item))
                ELSE Get(ret[e]).result =
                         IF \A k \in HashedKeys(e, item) : get_node(ring, k) = own
                         THEN Defer ELSE Exclude

\* The ring sends the function to this node, and wantFunction deferred.
DecideWitness ==
    \E e \in Plugins :
        /\ Decided(e)
        /\ Get(ret[e]).callback = "wantFunction"
        /\ RingNode(e, Get(ret[e]).item) = NodeId(plugin[e])
        /\ Get(ret[e]).result = Defer

\* C8: when tests are spread one by one wantClass always defers, and when
\* they are spread by class wantMethod always defers.
GranularitySplit ==
    \A e \in Plugins :
        ~IsNone(ret[e]) =>
            /\ Get(ret[e]).callback = "wantClass" /\ ~HashByClass(e) =>
                   Get(ret[e]).result = Defer
            /\ Get(ret[e]).callback = "wantMethod" /\ HashByClass(e) =>
                   Get(ret[e]).result = Defer

\* wantMethod deferred on a node whose wantClass excludes the method's class.
GranularityWitness ==
    \E e \in Plugins :
        /\ ~IsNone(ret[e])
        /\ Get(ret[e]).callback = "wantMethod"
        /\ HashByClass(e)
        /\ Get(ret[e]).result = Defer
        /\ wantClass(plugin[e], ImClass(Get(ret[e]).item)).result = Exclude

\* C10: once configure has returned, no callback changes an attribute of the
\* plugin, and the answer to every question stays what it was.
AnswersOf(e) ==
    [q \in Items |->
        IF q \in Classes THEN wantClass(plugin[e], q).result
        ELSE IF q \in Methods THEN wantMethod(plugin[e], q).result
        ELSE wantFunction(plugin[e], q).result]

QueriesAreReadOnly ==
    [][\A e \in Plugins :
          Asked(e) => plugin'[e] = plugin[e] /\ AnswersOf(e)' = AnswersOf(e)]_vars

\* A method whose key the duration record does not hold was asked about on a
\* node that has a table.
ReadOnlyWitness ==
    \E e \in Plugins :
        /\ TableBuilt(e)
        /\ ~IsNone(ret[e])
        /\ Get(ret[e]).callback = "wantMethod"
        /\ ~HashByClass(e)
        /\ ~KnownKey(e, Get(ret[e]).item)

----------------------------------------------------------------------------
\* The fleet.

\* Every node of the fleet was last asked the same question.
AllAsked(callback, item) ==
    \A e \in Plugins :
        /\ ~IsNone(ret[e])
        /\ Get(ret[e]).callback = callback
        /\ Get(ret[e]).item = item

Keepers == {e \in Plugins : Get(ret[e]).result # Exclude}

\* C1: in a fleet of N >= 2 nodes configured alike but for the node number,
\* an item decided at its own granularity (a function; a method when tests
\* are spread one by one; a class when they are spread by class) is kept by
\* exactly one node and excluded by the other N - 1.
ExactlyOneOwner ==
    /\ \A f \in Functions :
           AllAsked("wantFunction", f) => Cardinality(Keepers) = 1
    /\ \A m \in Methods :
           AllAsked("wantMethod", m) /\ (\A e \in Plugins : ~HashByClass(e)) =>
               Cardinality(Keepers) = 1
    /\ \A c \in Classes :
           AllAsked("wantClass", c) /\ (\A e \in Plugins : HashByClass(e)) =>
               Cardinality(Keepers) = 1

\* C4: the nodes that built a table from the same duration record and the
\* same node count hold the same table, whatever order each one's dict
\* iterated in.
SameTableOnEveryNode ==
    \A e1, e2 \in Plugins :
        TableBuilt(e1) /\ TableBuilt(e2) =>
            plugin[e1].lpt_nodes = plugin[e2].lpt_nodes

====
